---- MODULE Spec2Model ----
(***************************************************************************)
(* Model of app.py: the Reddit scraper with Q&A conversion.                *)
(*                                                                         *)
(* One run of main() after the "Start Scraping" button is pressed:         *)
(*   get_trending_posts_with_comments  (fetch, rank, truncate, render)     *)
(*   convert_to_qa                     (one model call per bundle)         *)
(*   save_to_excel                     (flatten, table, spreadsheet, CSV)  *)
(*                                                                         *)
(* A comment is [id, score], id being its position in the retrieved list.  *)
(* A Python value that may be None is [isNone, items].                     *)
(* A model reply is a JSON list of question/answer records (the shape the  *)
(* generation config asks for), a text json.loads rejects, or no reply at  *)
(* all because generate_content raised.                                    *)
(***************************************************************************)
EXTENDS Integers, Sequences, FiniteSets, TLC

VARIABLES
    pc,             \* position of main()
    platform,       \* what the platform will return: one score list per thread
    top_posts,      \* get_trending_posts_with_comments: top_posts
    all_posts_data, \* get_trending_posts_with_comments: all_posts_data
    k,              \* get_trending_posts_with_comments: number of the post being processed
    reddit_content, \* main: reddit_content (None or a list of bundles)
    i,              \* main: number of completed loop iterations
    all_qa_pairs,   \* main: all_qa_pairs
    calls,          \* bundles handed to model.generate_content, in call order
    response,       \* convert_to_qa: response (the reply being parsed)
    returned,       \* values convert_to_qa has returned, in call order
    progress,       \* values shown by the progress bar, in order
    log,            \* st.error / st.warning / st.success notifications and uncaught exceptions
    df,             \* main: df (None until save_to_excel has returned)
    xlsx,           \* reddit_qa.xlsx on disk (None while not written)
    csv,            \* main: csv (None until df.to_csv has run)
    download        \* TRUE once st.download_button has offered the CSV

vars == <<pc, platform, top_posts, all_posts_data, k, reddit_content, i, all_qa_pairs,
          calls, response, returned, progress, log, df, xlsx, csv, download>>

-----------------------------------------------------------------------------
(* Bounds of the model *)

MaxPosts == 2
MaxComments == 11
MaxRecs == 3

(* comments[:min(10, len(comments))] *)
TopN == 10

-----------------------------------------------------------------------------
(* Values *)

None == [isNone |-> TRUE, items |-> <<>>]

Some(s) == [isNone |-> FALSE, items |-> s]

\* Python truthiness of None-or-list: `if reddit_content:`, `if qa_pairs:`, `if all_qa_pairs:`
Truthy(v) == ~v.isNone /\ Len(v.items) > 0

Min(a, b) == IF a <= b THEN a ELSE b

SeqsUpTo(S, n) == UNION {[1..m -> S] : m \in 0..n}

Scores == {0, 1}

\* post.comments.list(): the comments in retrieval order
Comments(scores) == [j \in 1..Len(scores) |-> [id |-> j, score |-> scores[j]]]

QARecords == {[question |-> "q1", answer |-> "a1"], [question |-> "q2", answer |-> "a2"]}

\* json.loads(response.text) when the text is a JSON list of records
Replies == SeqsUpTo(QARecords, MaxRecs)

\* response.text: nothing yet, a text json.loads rejects, or a JSON list of records
NoResponse == [kind |-> "none", items |-> <<>>]

Malformed == [kind |-> "malformed", items |-> <<>>]

JsonList(reply) == [kind |-> "json", items |-> reply]

Responses == {Malformed} \cup {JsonList(reply) : reply \in Replies}

FaultKinds == {"PRAWException", "ResponseException", "Exception"}

Note(kind, what, n) == [kind |-> kind, what |-> what, n |-> n]

-----------------------------------------------------------------------------
(* comments.sort(key=lambda x: x.score, reverse=True)                      *)
(* list.sort with reverse=True reverses the list, sorts it ascending by    *)
(* key with a stable insertion sort (lists shorter than 64), and reverses  *)
(* the result.                                                             *)

Reverse(s) == [j \in 1..Len(s) |-> s[Len(s) + 1 - j]]

\* insertion point: right of every element whose key is not greater
InsertAsc(s, x) ==
    LET p == Cardinality({j \in 1..Len(s) : s[j].score <= x.score})
    IN SubSeq(s, 1, p) \o <<x>> \o SubSeq(s, p + 1, Len(s))

RECURSIVE SortAscN(_, _)
SortAscN(c, n) == IF n = 0 THEN <<>> ELSE InsertAsc(SortAscN(c, n - 1), c[n])

SortAsc(c) == SortAscN(c, Len(c))

\* a sort that orders ascending and reverses once: ties come out in reverse retrieval order
SortByScoreUnstable(c) == Reverse(SortAsc(c))

SortByScore(c) == Reverse(SortAsc(Reverse(c)))

\* top_comments = comments[:min(10, len(comments))]
TopComments(c) == SubSeq(c, 1, Min(TopN, Len(c)))

\* for i, comment in enumerate(top_comments, 1): "Comment {i}: {comment.body}"
RenderComments(top) == [j \in 1..Len(top) |-> [num |-> j, comment |-> top[j].id]]

\* formatted_output of one post
Bundle(post, scores) ==
    [post |-> post, lines |-> RenderComments(TopComments(SortByScore(Comments(scores))))]

-----------------------------------------------------------------------------
(* save_to_excel helpers *)

\* flat_data = [item for sublist in qa_data for item in sublist]
RECURSIVE FlattenN(_, _)
FlattenN(qa_data, n) == IF n = 0 THEN <<>> ELSE FlattenN(qa_data, n - 1) \o qa_data[n]

Flatten(qa_data) == FlattenN(qa_data, Len(qa_data))

\* pd.DataFrame(flat_data): one row per record, in list order
DataFrame(flat_data) == [columns |-> <<"question", "answer">>, rows |-> flat_data]

\* df.to_csv(index=False): the header line, then one line per row
ToCsv(frame) ==
    <<frame.columns[1] \o "," \o frame.columns[2]>>
    \o [j \in 1..Len(frame.rows) |-> frame.rows[j].question \o "," \o frame.rows[j].answer]

-----------------------------------------------------------------------------
(* Decisions of the code *)

\* a fault handler that hands back what was rendered so far
FetchFaultResultPartial(rendered) == Some(rendered)

\* the except clauses of get_trending_posts_with_comments fall through to `return None`
FetchFaultResult(rendered) == None

\* a test for "is not None" instead of truthiness
IsNotNone(v) == ~v.isNone

\* `if reddit_content:`
HasContent(v) == Truthy(v)

\* a test for "is not None" instead of truthiness
ShouldExtendNotNone(v) == ~v.isNone

\* `if qa_pairs:`
ShouldExtend(v) == Truthy(v)

\* an assignment instead of extend
ExtendOverwrite(acc, qa_pairs) == qa_pairs

\* all_qa_pairs.extend(qa_pairs)
Extend(acc, qa_pairs) == acc \o qa_pairs

\* a driver that calls the aggregator whatever was accumulated
ShouldSaveAlways(acc) == TRUE

\* `if all_qa_pairs:`
ShouldSave(acc) == Len(acc) > 0

-----------------------------------------------------------------------------
(* Initial states *)

\* threads with few comments, for the driver
ShallowPosts == {<<>>, <<0, 1>>}

Platforms == SeqsUpTo(ShallowPosts, MaxPosts)

\* no thread, or one thread with up to MaxComments comments, for the ranking
RankPlatforms == {<<>>} \cup {<<c>> : c \in SeqsUpTo(Scores, MaxComments)}

InitRun ==
    /\ pc = "start"
    /\ top_posts = <<>>
    /\ all_posts_data = <<>>
    /\ k = 0
    /\ reddit_content = None
    /\ i = 0
    /\ all_qa_pairs = <<>>
    /\ calls = <<>>
    /\ response = NoResponse
    /\ returned = <<>>
    /\ progress = <<>>
    /\ log = <<>>
    /\ df = None
    /\ xlsx = None
    /\ csv = None
    /\ download = FALSE

Init == InitRun /\ platform \in Platforms

InitRank == InitRun /\ platform \in RankPlatforms

-----------------------------------------------------------------------------
(* main, lines 84-91: the button, the required fields, the call of the fetcher *)

Start ==
    /\ pc = "start"
    /\ \E filled \in BOOLEAN :
        IF filled
        THEN pc' = "fetch_top" /\ log' = log
        ELSE pc' = "done" /\ log' = Append(log, Note("error", "Please fill in all the required fields", 0))
    /\ UNCHANGED <<platform, top_posts, all_posts_data, k, reddit_content, i, all_qa_pairs,
                   calls, response, returned, progress, df, xlsx, csv, download>>

(* get_trending_posts_with_comments, lines 10-17 *)
FetchTop ==
    /\ pc = "fetch_top"
    /\ top_posts' = platform
    /\ all_posts_data' = <<>>
    /\ k' = 1
    /\ pc' = "fetch_loop"
    /\ UNCHANGED <<platform, reddit_content, i, all_qa_pairs, calls, response, returned,
                   progress, log, df, xlsx, csv, download>>

(* get_trending_posts_with_comments, lines 19-29: one post *)
FetchPost ==
    /\ pc = "fetch_loop"
    /\ k <= Len(top_posts)
    /\ all_posts_data' = Append(all_posts_data, Bundle(k, top_posts[k]))
    /\ k' = k + 1
    /\ UNCHANGED <<pc, platform, top_posts, reddit_content, i, all_qa_pairs, calls, response,
                   returned, progress, log, df, xlsx, csv, download>>

(* get_trending_posts_with_comments, line 31 *)
FetchReturn ==
    /\ pc = "fetch_loop"
    /\ k > Len(top_posts)
    /\ reddit_content' = Some(all_posts_data)
    /\ pc' = "fetched"
    /\ UNCHANGED <<platform, top_posts, all_posts_data, k, i, all_qa_pairs, calls, response,
                   returned, progress, log, df, xlsx, csv, download>>

(* get_trending_posts_with_comments, lines 32-38: a fault of the client, of the       *)
(* listing (k = 0) or of the comments of post k, caught by one of the except clauses  *)
FetchFault ==
    /\ \/ pc = "fetch_top" /\ k = 0
       \/ pc = "fetch_loop" /\ k <= Len(top_posts)
    /\ \E kind \in FaultKinds : log' = Append(log, Note("error", kind, k))
    /\ reddit_content' = FetchFaultResult(all_posts_data)
    /\ pc' = "fetched"
    /\ UNCHANGED <<platform, top_posts, all_posts_data, k, i, all_qa_pairs, calls, response,
                   returned, progress, df, xlsx, csv, download>>

(* main, lines 93-97 and 124-125 *)
CheckContent ==
    /\ pc = "fetched"
    /\ IF HasContent(reddit_content)
       THEN /\ log' = Append(log, Note("success", "Retrieved posts", Len(reddit_content.items)))
            /\ progress' = <<0>>
            /\ all_qa_pairs' = <<>>
            /\ pc' = "loop"
       ELSE /\ log' = Append(log, Note("error", "No posts found", 0))
            /\ pc' = "done"
            /\ UNCHANGED <<progress, all_qa_pairs>>
    /\ UNCHANGED <<platform, top_posts, all_posts_data, k, reddit_content, i, calls, response,
                   returned, df, xlsx, csv, download>>

(* main, lines 99-101, and convert_to_qa, lines 41-51: the request for bundle i+1 goes out *)
CallModel ==
    /\ pc = "loop"
    /\ i < Len(reddit_content.items)
    /\ calls' = Append(calls, reddit_content.items[i + 1].post)
    /\ pc' = "calling"
    /\ UNCHANGED <<platform, top_posts, all_posts_data, k, reddit_content, i, all_qa_pairs,
                   response, returned, progress, log, df, xlsx, csv, download>>

(* convert_to_qa, line 51: generate_content returns a response *)
ModelReplies ==
    /\ pc = "calling"
    /\ response' \in Responses
    /\ pc' = "parsing"
    /\ UNCHANGED <<platform, top_posts, all_posts_data, k, reddit_content, i, all_qa_pairs,
                   calls, returned, progress, log, df, xlsx, csv, download>>

(* convert_to_qa, line 51: generate_content raises; nothing in convert_to_qa or main catches it *)
ModelRaises ==
    /\ pc = "calling"
    /\ log' = Append(log, Note("exception", "generate_content", i + 1))
    /\ pc' = "crashed"
    /\ UNCHANGED <<platform, top_posts, all_posts_data, k, reddit_content, i, all_qa_pairs,
                   calls, response, returned, progress, df, xlsx, csv, download>>

(* a convert_to_qa without the except clause: the JSONDecodeError leaves main *)
ParseFailsUncaught ==
    /\ pc = "parsing"
    /\ response.kind = "malformed"
    /\ log' = Append(log, Note("exception", "JSONDecodeError", i + 1))
    /\ pc' = "crashed"
    /\ UNCHANGED <<platform, top_posts, all_posts_data, k, reddit_content, i, all_qa_pairs,
                   calls, response, returned, progress, df, xlsx, csv, download>>

(* convert_to_qa, lines 53-58: json.loads rejects the reply; main, lines 102-106 *)
ParseFails ==
    /\ pc = "parsing"
    /\ response.kind = "malformed"
    /\ returned' = Append(returned, None)
    /\ IF ShouldExtend(None)
       THEN /\ all_qa_pairs' = Extend(all_qa_pairs, None.items)
            /\ log' = Append(log, Note("error", "Unable to parse JSON response", i + 1))
       ELSE /\ all_qa_pairs' = all_qa_pairs
            /\ log' = log \o <<Note("error", "Unable to parse JSON response", i + 1),
                               Note("warning", "Failed to convert post", i + 1)>>
    /\ progress' = Append(progress, i + 1)
    /\ i' = i + 1
    /\ response' = NoResponse
    /\ pc' = "loop"
    /\ UNCHANGED <<platform, top_posts, all_posts_data, k, reddit_content, calls,
                   df, xlsx, csv, download>>

(* convert_to_qa, lines 53-55: json.loads returns the list; main, lines 102-106 *)
ParseOk ==
    /\ pc = "parsing"
    /\ response.kind = "json"
    /\ returned' = Append(returned, Some(response.items))
    /\ IF ShouldExtend(Some(response.items))
       THEN /\ all_qa_pairs' = Extend(all_qa_pairs, response.items)
            /\ log' = log
       ELSE /\ all_qa_pairs' = all_qa_pairs
            /\ log' = Append(log, Note("warning", "Failed to convert post", i + 1))
    /\ progress' = Append(progress, i + 1)
    /\ i' = i + 1
    /\ response' = NoResponse
    /\ pc' = "loop"
    /\ UNCHANGED <<platform, top_posts, all_posts_data, k, reddit_content, calls,
                   df, xlsx, csv, download>>

(* main, lines 108 and 122-123: the loop is over *)
AfterLoop ==
    /\ pc = "loop"
    /\ i = Len(reddit_content.items)
    /\ IF ShouldSave(all_qa_pairs)
       THEN pc' = "save" /\ log' = log
       ELSE pc' = "done" /\ log' = Append(log, Note("error", "No Q&A pairs were generated", 0))
    /\ UNCHANGED <<platform, top_posts, all_posts_data, k, reddit_content, i, all_qa_pairs,
                   calls, response, returned, progress, df, xlsx, csv, download>>

(* save_to_excel([all_qa_pairs]), lines 61-65, and main, lines 109-118 *)
SaveOk ==
    /\ pc = "save"
    /\ LET frame == DataFrame(Flatten(<<all_qa_pairs>>)) IN
        /\ xlsx' = Some(frame.rows)
        /\ df' = Some(frame.rows)
        /\ csv' = Some(ToCsv(frame))
    /\ log' = Append(log, Note("success", "Data saved", 0))
    /\ download' = TRUE
    /\ pc' = "done"
    /\ UNCHANGED <<platform, top_posts, all_posts_data, k, reddit_content, i, all_qa_pairs,
                   calls, response, returned, progress>>

(* save_to_excel, line 63: df.to_excel raises (disk full, permission denied); the      *)
(* exception leaves save_to_excel before `return df` and leaves main at line 109        *)
SaveIOError ==
    /\ pc = "save"
    /\ log' = Append(log, Note("exception", "to_excel", 0))
    /\ pc' = "crashed"
    /\ UNCHANGED <<platform, top_posts, all_posts_data, k, reddit_content, i, all_qa_pairs,
                   calls, response, returned, progress, df, xlsx, csv, download>>

Next ==
    \/ Start
    \/ FetchTop
    \/ FetchPost
    \/ FetchReturn
    \/ FetchFault
    \/ CheckContent
    \/ CallModel
    \/ ModelReplies
    \/ ModelRaises
    \/ ParseFails
    \/ ParseOk
    \/ AfterLoop
    \/ SaveOk
    \/ SaveIOError

Spec == Init /\ [][Next]_vars

SpecRank == InitRank /\ [][Next]_vars

-----------------------------------------------------------------------------
(* Vocabulary of the properties *)

\* number of fetched bundles
NumBundles == Len(reddit_content.items)

\* the fetcher returned at least one bundle
FetchedSome == ~reddit_content.isNone /\ Len(reddit_content.items) > 0

Terminated == pc \in {"done", "crashed"}

Logged(note) == \E j \in DOMAIN log : log[j] = note

LastLogged(note) == Len(log) > 0 /\ log[Len(log)] = note

WarningNote(n) == Note("warning", "Failed to convert post", n)

Warnings == {j \in DOMAIN log : log[j].kind = "warning"}

WarnedBundles == {n \in 1..NumBundles : Logged(WarningNote(n))}

FetchFaulted == \E j \in DOMAIN log : log[j].kind = "error" /\ log[j].what \in FaultKinds

ModelCallRaised == \E j \in DOMAIN log : log[j].kind = "exception" /\ log[j].what = "generate_content"

WriteFailed == Logged(Note("exception", "to_excel", 0))

AggregatorCalled == pc = "save" \/ WriteFailed \/ Logged(Note("success", "Data saved", 0))

NothingAggregated ==
    /\ ~AggregatorCalled
    /\ df = None
    /\ xlsx = None
    /\ csv = None
    /\ ~download

\* the records convert_to_qa returned for its first n calls, in call order
RECURSIVE ReturnedRecords(_)
ReturnedRecords(n) == IF n = 0 THEN <<>> ELSE ReturnedRecords(n - 1) \o returned[n].items

RECURSIVE ReturnedCount(_)
ReturnedCount(n) == IF n = 0 THEN 0 ELSE ReturnedCount(n - 1) + Len(returned[n].items)

Contributors == {j \in 1..Len(returned) : Len(returned[j].items) > 0}

-----------------------------------------------------------------------------
(* C1: a reply that cannot be parsed is warned about and skipped: the step  *)
(* that handles it leaves the accumulated records as they were, reports     *)
(* exactly one more warning, for that bundle, and goes on to the next       *)
(* bundle; a run that is not cut short has called the model for every       *)
(* bundle; and with two bundles, the first yielding three records and the   *)
(* second a malformed reply, the table has exactly the three records of the *)
(* first and the one warning is for the second.                             *)

C1_ParseFailureStep ==
    (pc = "parsing" /\ response.kind = "malformed") =>
        /\ all_qa_pairs' = all_qa_pairs
        /\ log' = log \o <<Note("error", "Unable to parse JSON response", i + 1), WarningNote(i + 1)>>
        /\ returned' = Append(returned, None)
        /\ i' = i + 1
        /\ pc' = "loop"
        /\ UNCHANGED <<reddit_content, calls, df, xlsx, csv, download>>

C1_Scenario ==
    (/\ pc = "done"
     /\ NumBundles = 2
     /\ Len(returned) = 2
     /\ Len(returned[1].items) = 3
     /\ returned[2] = None) =>
        /\ df = Some(returned[1].items)
        /\ Len(df.items) = 3
        /\ Cardinality(Warnings) = 1
        /\ Logged(WarningNote(2))

C1_LaterBundlesCalled ==
    (pc \in {"save", "done"} /\ FetchedSome) =>
        /\ Len(calls) = NumBundles
        /\ Len(returned) = NumBundles

C1_ParseFailureIsolated ==
    [][C1_ParseFailureStep]_vars /\ [](C1_Scenario /\ C1_LaterBundlesCalled)

C1_Witness ==
    /\ pc = "done"
    /\ NumBundles = 2
    /\ Len(returned) = 2
    /\ Len(returned[1].items) = 3
    /\ returned[2] = None
    /\ Len(df.items) = 3

-----------------------------------------------------------------------------
(* C2: when the model call for one bundle raises, the run still calls the   *)
(* model for every fetched bundle, and the records accumulated from the     *)
(* earlier bundles still reach the aggregator and the table.                *)

C2_ModelFaultIsolated ==
    (Terminated /\ ModelCallRaised) =>
        /\ Len(calls) = NumBundles
        /\ (Len(all_qa_pairs) > 0 => AggregatorCalled /\ df = Some(all_qa_pairs))

-----------------------------------------------------------------------------
(* C3: the comments rendered into a bundle are the first min(10, n) of the  *)
(* thread's n comments in descending order of score, ties in retrieval      *)
(* order: at most 10 lines, numbered 1, 2, ... in that order, each a        *)
(* different comment of the thread, no line with a lower score before one   *)
(* with a higher score, equal scores in retrieval order, and every comment  *)
(* left out ranks after every comment kept.                                 *)

RankedBefore(scores, a, b) ==
    scores[a] > scores[b] \/ (scores[a] = scores[b] /\ a < b)

RankedAndCut(bundle) ==
    LET scores == platform[bundle.post]
        n == Len(scores)
        m == Len(bundle.lines)
        kept == {bundle.lines[j].comment : j \in 1..m}
    IN /\ m <= 10
       /\ m = IF n < 10 THEN n ELSE 10
       /\ \A j \in 1..m : bundle.lines[j].num = j
       /\ kept \subseteq 1..n
       /\ Cardinality(kept) = m
       /\ \A j \in 1..m - 1 :
            /\ scores[bundle.lines[j].comment] >= scores[bundle.lines[j + 1].comment]
            /\ RankedBefore(scores, bundle.lines[j].comment, bundle.lines[j + 1].comment)
       /\ \A a \in kept : \A b \in (1..n) \ kept : RankedBefore(scores, a, b)

C3_TopCommentsRanked ==
    /\ \A j \in DOMAIN all_posts_data : RankedAndCut(all_posts_data[j])
    /\ ~reddit_content.isNone => \A j \in DOMAIN reddit_content.items : RankedAndCut(reddit_content.items[j])

\* eleven comments, ten kept, a low score retrieved first and a tie among the kept ones
C3_Witness ==
    /\ Len(all_posts_data) = 1
    /\ Len(platform[1]) > 10
    /\ Len(all_posts_data[1].lines) = 10
    /\ all_posts_data[1].lines[1].comment # 1
    /\ \E a, b \in 1..10 :
         /\ a < b
         /\ platform[1][all_posts_data[1].lines[a].comment] = platform[1][all_posts_data[1].lines[b].comment]

-----------------------------------------------------------------------------
(* C4: the accumulated collection is at every moment the concatenation of   *)
(* what the transforms returned, in call order; the table and the written   *)
(* file have exactly those records as rows, as many as the sum of the       *)
(* per-bundle record counts, in thread order and within-thread order; and a *)
(* run that ends normally after producing a record has built the table.     *)

C4_CountAndOrderPreserved ==
    /\ pc \in {"loop", "calling", "parsing", "save"} \/ ~df.isNone =>
         all_qa_pairs = ReturnedRecords(Len(returned))
    /\ ~df.isNone =>
         /\ Len(returned) = NumBundles
         /\ df.items = ReturnedRecords(NumBundles)
         /\ Len(df.items) = ReturnedCount(NumBundles)
         /\ xlsx = df
         /\ Len(csv.items) = ReturnedCount(NumBundles) + 1
    /\ (pc = "done" /\ Len(returned) > 0 /\ ReturnedCount(Len(returned)) > 0) => ~df.isNone

\* two bundles, both with records, the first with more than one and not all alike
C4_Witness ==
    /\ pc = "done"
    /\ ~df.isNone
    /\ Len(returned) = 2
    /\ Len(returned[1].items) >= 2
    /\ returned[1].items[1] # returned[1].items[2]
    /\ Len(returned[2].items) >= 1
    /\ returned[2].items[1] # returned[1].items[2]

-----------------------------------------------------------------------------
(* C5: once a fault has occurred in the fetch stage, the fetcher's result   *)
(* is None, not the bundles rendered so far, and the run ends without a     *)
(* model call, an aggregation or a file; a list the fetcher does return     *)
(* holds a bundle for every thread.                                         *)

C5_FetchFaultTerminal ==
    /\ FetchFaulted =>
         /\ reddit_content = None
         /\ pc \in {"fetched", "done"}
         /\ calls = <<>>
         /\ returned = <<>>
         /\ NothingAggregated
    /\ ~reddit_content.isNone =>
         /\ ~FetchFaulted
         /\ Len(reddit_content.items) = Len(platform)
         /\ \A j \in 1..Len(platform) : reddit_content.items[j].post = j

\* the fault came at the second thread, after the first was rendered
C5_Witness ==
    /\ FetchFaulted
    /\ pc = "done"
    /\ Len(all_posts_data) = 1
    /\ k = 2

-----------------------------------------------------------------------------
(* C6: when the spreadsheet cannot be written, the table and the CSV stream *)
(* made from it are there all the same and the CSV is offered for download. *)

C6_WriteFailureKeepsData ==
    (Terminated /\ WriteFailed) =>
        /\ df = Some(all_qa_pairs)
        /\ ~csv.isNone
        /\ download

-----------------------------------------------------------------------------
(* C7: when every bundle's transform has returned no records, the run ends  *)
(* with the report that no Q&A pairs were generated, and the aggregator is  *)
(* not called: no table, no file, no CSV, no download.  The aggregator is   *)
(* called only with a non-empty collection.                                 *)

AllTransformsFailed ==
    /\ FetchedSome
    /\ Len(returned) = NumBundles
    /\ Contributors = {}

C7_NoRecordsNoAggregation ==
    /\ AllTransformsFailed =>
         /\ NothingAggregated
         /\ pc \in {"loop", "done"}
         /\ pc = "done" => LastLogged(Note("error", "No Q&A pairs were generated", 0))
    /\ AggregatorCalled => Len(all_qa_pairs) > 0

\* two bundles, one malformed reply and one empty list
C7_Witness ==
    /\ AllTransformsFailed
    /\ pc = "done"
    /\ NumBundles = 2
    /\ \E j \in 1..2 : returned[j] = None
    /\ \E j \in 1..2 : returned[j] = Some(<<>>)

-----------------------------------------------------------------------------
(* C8: when the fetcher returns an empty list, the run ends with the report *)
(* that no posts were found, without a model call or an aggregation.        *)

FetchedNothing == ~reddit_content.isNone /\ Len(reddit_content.items) = 0

C8_NoPostsNoCalls ==
    FetchedNothing =>
        /\ pc \in {"fetched", "done"}
        /\ pc = "done" => LastLogged(Note("error", "No posts found", 0))
        /\ calls = <<>>
        /\ returned = <<>>
        /\ progress = <<>>
        /\ NothingAggregated

C8_Witness == FetchedNothing /\ pc = "done"

-----------------------------------------------------------------------------
(* C9: the fetch is over before the first model call; the model is called   *)
(* once per fetched bundle, in fetch order, each call after the one before  *)
(* has returned, and a run that has ended has called it for every bundle;   *)
(* the aggregator runs at most once and only after the call for the last    *)
(* bundle has returned.                                                     *)

C9_StagesOrdered ==
    /\ Len(calls) > 0 => ~reddit_content.isNone /\ pc \notin {"start", "fetch_top", "fetch_loop", "fetched"}
    /\ \A j \in DOMAIN calls : calls[j] = j
    /\ Len(calls) <= Len(returned) + 1
    /\ Len(calls) <= NumBundles
    /\ (Terminated /\ FetchedSome) => Len(calls) = NumBundles
    /\ AggregatorCalled => Len(returned) = NumBundles
    /\ Cardinality({j \in DOMAIN log : log[j] \in {Note("success", "Data saved", 0), Note("exception", "to_excel", 0)}}) <= 1

-----------------------------------------------------------------------------
(* C10: among the bundles whose iteration is over, a warning is reported    *)
(* for exactly those that contributed no record, one warning each, an empty *)
(* list being warned about like a malformed reply; warnings plus            *)
(* contributing bundles make up the iterations done, and after the loop the *)
(* fetched bundles; the progress bar has advanced once per iteration.       *)

C10_WarnedIffNoRecords ==
    pc \in {"loop", "calling", "parsing", "save", "done", "crashed"} /\ FetchedSome =>
        /\ Len(returned) = i
        /\ \A j \in 1..NumBundles : Logged(WarningNote(j)) <=> (j <= i /\ Len(returned[j].items) = 0)
        /\ Cardinality(Warnings) = Cardinality(WarnedBundles)
        /\ Cardinality(Warnings) + Cardinality(Contributors) = i
        /\ progress = [j \in 1..i + 1 |-> j - 1]
        /\ pc \in {"save", "done"} =>
             Cardinality(Warnings) + Cardinality(Contributors) = NumBundles

\* after the loop: a malformed reply, an empty list and a bundle with records
C10_Witness ==
    /\ pc = "done"
    /\ FetchedSome
    /\ \E j \in 1..NumBundles : returned[j] = Some(<<>>)
    /\ \E j \in 1..NumBundles : Len(returned[j].items) > 0

====
